---- MODULE Spec2Model ----
(***************************************************************************)
(* kmail2maildir: conversion of a KMail maildir tree into a flat Maildir++ *)
(* tree.  The model holds the filesystem tree below the mailbox root, the  *)
(* command line options, and the position of the program inside            *)
(* kmail2maildir() / Kmail2Maildir.move_kmail_folders().                   *)
(*                                                                         *)
(* A file or directory name is a sequence of one-character strings, a path *)
(* is the sequence of names from the mailbox root (the root is << >>).     *)
(* Every entry of the tree carries the path it had in the initial tree     *)
(* ("orig"), which is its identity: the program never writes file content, *)
(* it only renames, unlinks and removes directories.                       *)
(*                                                                         *)
(* The tree holds directories and regular files (no symbolic links), no    *)
(* other process changes it while the program runs, the text of the root   *)
(* path holds no glob wildcard and the separator holds no "/".             *)
(***************************************************************************)
EXTENDS Naturals, Integers, Sequences, FiniteSets, TLC

VARIABLES
    fs,           \* the tree: path -> [kind, orig]
    fs0,          \* the tree when kmail2maildir() was called
    args,         \* parsed options: folder, dry_run, remove_index_files, hierarchy_separator
    scan_rev,     \* order in which the OS enumerates a directory (glob result order)
    pc,           \* position in the program
    pass,         \* "none", "check" (the quiet dry pass) or "main"
    fs_action,    \* the FileSystemAction of the running pass: [dry_run, quiet]
    discovered,   \* the sorted list `maildirs` of the running pass
    maildirs,     \* the part of that list the for loop has not processed yet
    index_files,  \* remove_index_files: the glob result not yet deleted
    inbox_i,      \* index into MAILDIR_SPECIAL_DIRS of the inbox loop
    log,          \* every operation handed to FileSystemAction.__run, in order
    error         \* the exception that ended the invocation, or "none"

vars == << fs, fs0, args, scan_rev, pc, pass, fs_action, discovered, maildirs,
           index_files, inbox_i, log, error >>

-----------------------------------------------------------------------------
(* Bounds of the model *)

\* number of optional items (maildirs, index files, ...) put into the initial tree
MaxItems == 2

-----------------------------------------------------------------------------
(* Characters and strings *)

\* the characters used by the model, in code point order
CharOrder == << "*", ".", ":", "?", "A", "B", "C", "D", "[", "]",
                "b", "c", "d", "e", "i", "m", "n", "o", "p", "r", "t",
                "u", "w", "x", "y" >>

Ord(c) == CHOOSE i \in 1..Len(CharOrder) : CharOrder[i] = c

\* Python's str < str: lexicographic by code point
StrLess(a, b) ==
    \E k \in 0..Len(a) :
        /\ k <= Len(b)
        /\ \A i \in 1..k : a[i] = b[i]
        /\ \/ k = Len(a) /\ k < Len(b)
           \/ k < Len(a) /\ k < Len(b) /\ Ord(a[k+1]) < Ord(b[k+1])

startswith(s, prefix) ==
    Len(prefix) <= Len(s) /\ SubSeq(s, 1, Len(prefix)) = prefix

endswith(s, suffix) ==
    Len(suffix) <= Len(s) /\ SubSeq(s, Len(s) - Len(suffix) + 1, Len(s)) = suffix

RECURSIVE join(_, _)
\* sep.join(list)
join(sep, list) ==
    IF list = << >> THEN << >>
    ELSE IF Len(list) = 1 THEN list[1]
    ELSE list[1] \o sep \o join(sep, Tail(list))

RECURSIVE Concat(_)
\* the concatenation of a sequence of sequences (list.extend in a loop)
Concat(ss) == IF ss = << >> THEN << >> ELSE Head(ss) \o Concat(Tail(ss))

-----------------------------------------------------------------------------
(* Module constants of kmail2maildir.py *)

HIDDEN_FILE_PREFIX == << "." >>
KMAIL_SUBDIR_PREFIX == << "." >>
KMAIL_SUBDIR_SUFFIX == << ".", "d", "i", "r", "e", "c", "t", "o", "r", "y" >>
DEFAULT_HIERARCHY_SEPARATOR == << "." >>
MAILDIR_SPECIAL_DIRS == << << "c", "u", "r" >>, << "n", "e", "w" >>, << "t", "m", "p" >> >>

INDEX_SUFFIX == << ".", "i", "n", "d", "e", "x" >>
INBOX == << "i", "n", "b", "o", "x" >>

-----------------------------------------------------------------------------
(* os.path and os on the tree *)

Root == << >>

IsPrefix(p, q) == Len(p) <= Len(q) /\ SubSeq(q, 1, Len(p)) = p

basename(p) == p[Len(p)]
dirname(p) == SubSeq(p, 1, Len(p) - 1)

exists(f, p) == p \in DOMAIN f
isdir(f, p) == p \in DOMAIN f /\ f[p].kind = "dir"

\* os.listdir(d): the entries directly inside d
listdir(f, d) == { p \in DOMAIN f : Len(p) = Len(d) + 1 /\ IsPrefix(d, p) }

Ok(f) == [ok |-> TRUE, fs |-> f, err |-> "none"]
Raise(f, e) == [ok |-> FALSE, fs |-> f, err |-> e]

\* os.rename(src, dst): moves the whole subtree; POSIX lets it replace an
\* empty directory or a file of the same kind
os_rename(f, src, dst) ==
    IF ~exists(f, src) \/ ~isdir(f, dirname(dst)) THEN Raise(f, "FileNotFoundError")
    ELSE IF IsPrefix(src, dst) THEN Raise(f, "OSError")
    ELSE IF exists(f, dst) /\ f[dst].kind # f[src].kind THEN Raise(f, "OSError")
    ELSE IF exists(f, dst) /\ listdir(f, dst) # {} THEN Raise(f, "OSError")
    ELSE LET moved == { p \in DOMAIN f : IsPrefix(src, p) }
             to(p) == dst \o SubSeq(p, Len(src) + 1, Len(p))
             from(q) == src \o SubSeq(q, Len(dst) + 1, Len(q))
             dom == ((DOMAIN f) \ moved) \cup { to(p) : p \in moved }
         IN  Ok([q \in dom |-> IF IsPrefix(dst, q) THEN f[from(q)] ELSE f[q]])

\* os.remove replaced by a recursive removal that also takes directories
os_remove_tree(f, file) ==
    IF ~exists(f, file) THEN Raise(f, "FileNotFoundError")
    ELSE Ok([q \in { p \in DOMAIN f : ~IsPrefix(file, p) } |-> f[q]])

\* os.remove(file)
os_remove(f, file) ==
    IF ~exists(f, file) THEN Raise(f, "FileNotFoundError")
    ELSE IF f[file].kind = "dir" THEN Raise(f, "IsADirectoryError")
    ELSE Ok([q \in (DOMAIN f) \ {file} |-> f[q]])

\* os.rmdir(directory)
os_rmdir(f, directory) ==
    IF ~exists(f, directory) THEN Raise(f, "FileNotFoundError")
    ELSE IF f[directory].kind # "dir" THEN Raise(f, "NotADirectoryError")
    ELSE IF listdir(f, directory) # {} \/ directory = Root THEN Raise(f, "OSError")
    ELSE Ok([q \in (DOMAIN f) \ {directory} |-> f[q]])

-----------------------------------------------------------------------------
(* fnmatch and glob *)

\* glob.has_magic: the name holds a wildcard character
has_magic(s) == \E i \in 1..Len(s) : s[i] \in {"*", "?", "["}

\* the position of the "]" that closes the "[" at pat[1], 0 when there is none
\* (a "]" right after the "[" belongs to the class)
ClassEnd(pat) ==
    LET from == IF Len(pat) >= 2 /\ pat[2] = "]" THEN 3 ELSE 2
        ends == { k \in from..Len(pat) : pat[k] = "]" }
    IN  IF ends = {} THEN 0 ELSE CHOOSE k \in ends : \A l \in ends : k <= l

RECURSIVE fnmatch(_, _)
\* fnmatch.fnmatchcase(name, pat): "*" any string, "?" any character,
\* "[seq]" any character of seq, an unclosed "[" itself
fnmatch(name, pat) ==
    IF pat = << >> THEN name = << >>
    ELSE IF Head(pat) = "*"
    THEN \E k \in 0..Len(name) : fnmatch(SubSeq(name, k + 1, Len(name)), Tail(pat))
    ELSE IF name = << >> THEN FALSE
    ELSE IF Head(pat) = "?" THEN fnmatch(Tail(name), Tail(pat))
    ELSE IF Head(pat) = "[" /\ ClassEnd(pat) # 0
    THEN /\ Head(name) \in { pat[k] : k \in 2..(ClassEnd(pat) - 1) }
         /\ fnmatch(Tail(name), SubSeq(pat, ClassEnd(pat) + 1, Len(pat)))
    ELSE Head(name) = Head(pat) /\ fnmatch(Tail(name), Tail(pat))

\* one path component of a glob pattern against one name: a component without
\* wildcards is the name itself, one with wildcards is matched by fnmatch and
\* finds hidden names only when the pattern itself starts with a dot
glob_component(name, pat) ==
    IF has_magic(pat)
    THEN fnmatch(name, pat) /\ (Head(pat) = "." \/ Head(name) # ".")
    ELSE name = pat

\* the set of paths glob.glob(pattern) returns; the pattern is a path whose
\* every component is a pattern (the mailbox root holds no wildcard)
glob_set(f, pattern) ==
    { p \in DOMAIN f :
        /\ Len(p) = Len(pattern)
        /\ \A i \in 1..Len(p) : glob_component(p[i], pattern[i]) }

\* the order of two paths in a directory enumeration
PathLess(p, q) ==
    \E k \in 1..Len(p) :
        /\ k <= Len(q)
        /\ \A i \in 1..(k - 1) : p[i] = q[i]
        /\ StrLess(p[k], q[k])

RECURSIVE SetToSeq(_, _)
\* the paths of S in enumeration order (ascending, or descending when rev)
SetToSeq(S, rev) ==
    IF S = {} THEN << >>
    ELSE LET first == CHOOSE p \in S :
                          \A q \in S \ {p} : IF rev THEN PathLess(q, p) ELSE PathLess(p, q)
         IN  << first >> \o SetToSeq(S \ {first}, rev)

\* glob.glob(pattern): a list
glob(f, rev, pattern) == SetToSeq(glob_set(f, pattern), rev)

-----------------------------------------------------------------------------
(* class Maildir *)

\* "no parent": Python's None, which is no path of the tree
None == << << >> >>

\* strip_component that removes the leading dot only
strip_component_prefix_only(p) ==
    IF startswith(p, KMAIL_SUBDIR_PREFIX) /\ endswith(p, KMAIL_SUBDIR_SUFFIX)
    THEN SubSeq(p, Len(KMAIL_SUBDIR_PREFIX) + 1, Len(p))
    ELSE p

\* strip_component that strips a component having the prefix or the suffix
strip_component_either(p) ==
    IF startswith(p, KMAIL_SUBDIR_PREFIX) \/ endswith(p, KMAIL_SUBDIR_SUFFIX)
    THEN SubSeq(p, Len(KMAIL_SUBDIR_PREFIX) + 1, Len(p) - Len(KMAIL_SUBDIR_SUFFIX))
    ELSE p

\* one path component with the leading dot and the trailing .directory removed
strip_component(p) ==
    IF startswith(p, KMAIL_SUBDIR_PREFIX) /\ endswith(p, KMAIL_SUBDIR_SUFFIX)
    THEN SubSeq(p, Len(KMAIL_SUBDIR_PREFIX) + 1, Len(p) - Len(KMAIL_SUBDIR_SUFFIX))
    ELSE p

\* Maildir.__init__(options, directory); directory is relative to options.folder
Maildir(directory) ==
    [ name |-> basename(directory),
      directory |-> directory,
      path_list |-> [i \in 1..Len(directory) |-> strip_component(directory[i])] ]

\* get_folder_path that joins with the default separator, whatever was configured
get_folder_path_default_separator(a, m) ==
    << HIDDEN_FILE_PREFIX \o join(DEFAULT_HIERARCHY_SEPARATOR, m.path_list) >>

\* Maildir.get_folder_path(): an entry directly in the mailbox root
get_folder_path(a, m) ==
    << HIDDEN_FILE_PREFIX \o join(a.hierarchy_separator, m.path_list) >>

\* Maildir.get_parent_maildir()
get_parent_maildir(m) ==
    IF Len(m.path_list) = 1 THEN None ELSE dirname(m.directory)

-----------------------------------------------------------------------------
(* class FileSystemAction; every method returns the outcome, the tree and *)
(* the log after it                                                       *)

Message(fa, op, a, b) ==
    [dry_run |-> fa.dry_run, quiet |-> fa.quiet, op |-> op, a |-> a, b |-> b]

\* __run that calls the function in a dry run too
run_always(fa, f, lg, message, result) ==
    [ok |-> result.ok, fs |-> result.fs, err |-> result.err, log |-> Append(lg, message)]

\* FileSystemAction.__run(message, function)
run(fa, f, lg, message, result) ==
    IF ~fa.dry_run
    THEN [ok |-> result.ok, fs |-> result.fs, err |-> result.err, log |-> Append(lg, message)]
    ELSE [ok |-> TRUE, fs |-> f, err |-> "none", log |-> Append(lg, message)]

\* rename that checks the destination only when it is going to rename
rename_unchecked_in_dry_run(fa, f, lg, src, dst) ==
    IF ~fa.dry_run /\ exists(f, dst)
    THEN [ok |-> FALSE, fs |-> f, err |-> "Exception", log |-> lg]
    ELSE [ok |-> TRUE, fs |-> IF fa.dry_run THEN f ELSE os_rename(f, src, dst).fs,
          err |-> "none", log |-> Append(lg, Message(fa, "rename", src, dst))]

\* FileSystemAction.rename(src, dst)
rename(fa, f, lg, src, dst) ==
    IF exists(f, dst)
    THEN [ok |-> FALSE, fs |-> f, err |-> "Exception", log |-> lg]
    ELSE run(fa, f, lg, Message(fa, "rename", src, dst), os_rename(f, src, dst))

\* FileSystemAction.delete(file)
delete(fa, f, lg, file) ==
    run(fa, f, lg, Message(fa, "delete", file, file), os_remove(f, file))

\* FileSystemAction.rmdir(directory)
rmdir(fa, f, lg, directory) ==
    run(fa, f, lg, Message(fa, "rmdir", directory, directory), os_rmdir(f, directory))

-----------------------------------------------------------------------------
(* class Kmail2Maildir: discovery *)

is_empty_dir(f, directory) == listdir(f, directory) = {}

is_maildir(f, directory) ==
    \A i \in 1..Len(MAILDIR_SPECIAL_DIRS) :
        isdir(f, directory \o << MAILDIR_SPECIAL_DIRS[i] >>)

\* d[0] of a path string returned by glob: every such string starts with the
\* text of options.folder
first_char(a, d) == Head(a.folder)

RECURSIVE get_subfolders_containers_recursive(_, _, _)
get_subfolders_containers_recursive(f, rev, directory) ==
    LET directories ==
            glob(f, rev, directory \o << KMAIL_SUBDIR_PREFIX \o << "*" >> \o KMAIL_SUBDIR_SUFFIX >>)
        maildir_subdirectory_containers == SelectSeq(directories, LAMBDA d : isdir(f, d))
    IN  << directory >> \o
        Concat([i \in 1..Len(maildir_subdirectory_containers) |->
                  get_subfolders_containers_recursive(f, rev, maildir_subdirectory_containers[i])])

get_maildirs_from_subfoldercontainers(f, rev, a, subfolder_containers) ==
    Concat([i \in 1..Len(subfolder_containers) |->
        LET files == glob(f, rev, subfolder_containers[i] \o << << "*" >> >>)
            directories == SelectSeq(files, LAMBDA x : isdir(f, x))
            potential_maildirs ==
                SelectSeq(directories, LAMBDA d : << first_char(a, d) >> # HIDDEN_FILE_PREFIX)
        IN  SelectSeq(potential_maildirs, LAMBDA d : is_maildir(f, d))])

RECURSIVE sort_forward(_, _)
\* the sort without reverse=True: ascending key order
sort_forward(a, list) ==
    IF list = << >> THEN << >>
    ELSE LET x == list[Len(list)]
             done == sort_forward(a, SubSeq(list, 1, Len(list) - 1))
             keep == { i \in 1..Len(done) :
                         ~PathLess(get_folder_path(a, x), get_folder_path(a, done[i])) }
             n == Cardinality(keep)
         IN  SubSeq(done, 1, n) \o << x >> \o SubSeq(done, n + 1, Len(done))

RECURSIVE sort_reverse(_, _)
\* maildirs.sort(key=get_folder_path, reverse=True): x goes behind every element
\* whose key is not smaller (the sort is stable)
sort_reverse(a, list) ==
    IF list = << >> THEN << >>
    ELSE LET x == list[Len(list)]
             done == sort_reverse(a, SubSeq(list, 1, Len(list) - 1))
             keep == { i \in 1..Len(done) :
                         ~PathLess(get_folder_path(a, done[i]), get_folder_path(a, x)) }
             n == Cardinality(keep)
         IN  SubSeq(done, 1, n) \o << x >> \o SubSeq(done, n + 1, Len(done))

\* move_kmail_folders, lines 94-97: the sorted list of Maildir objects
discover(f, rev, a) ==
    LET subdir_containers == get_subfolders_containers_recursive(f, rev, Root)
        maildirs_paths == get_maildirs_from_subfoldercontainers(f, rev, a, subdir_containers)
    IN  sort_reverse(a, [i \in 1..Len(maildirs_paths) |-> Maildir(maildirs_paths[i])])

\* remove_index_files: the glob of the index files of a maildir
index_file_glob(f, rev, m) ==
    glob(f, rev, dirname(m.directory) \o
                 << HIDDEN_FILE_PREFIX \o m.name \o INDEX_SUFFIX \o << "*" >> >>)

\* the inbox path without the hidden file prefix
kmail_inbox_visible == << INBOX >>

\* line 111
kmail_inbox == << HIDDEN_FILE_PREFIX \o INBOX >>

-----------------------------------------------------------------------------
(* Initial trees *)

NameA == << "A" >>
NameB == << "B" >>
NameC == << "C" >>
NameD == << "D" >>
NameAB == << "A", ".", "B" >>
NameBracket == << "[", "B", "]" >>
NameIndex == << "i", "n", "d", "e", "x" >>
NameMsg == << "m" >>
NameHiddenInbox == << ".", "i", "n", "b", "o", "x" >>
NameInbox == << "i", "n", "b", "o", "x" >>
NameSuffixOnly == << "B", ".", "d", "i", "r", "e", "c", "t", "o", "r", "y" >>

Container(n) == KMAIL_SUBDIR_PREFIX \o n \o KMAIL_SUBDIR_SUFFIX
IndexFile(n) == HIDDEN_FILE_PREFIX \o n \o INDEX_SUFFIX

Dir(p) == [path |-> p, kind |-> "dir"]
File(p) == [path |-> p, kind |-> "file"]

\* a maildir at d: cur, new and tmp, and one message in cur
MaildirAt(d) ==
    { Dir(d), File(d \o << MAILDIR_SPECIAL_DIRS[1], NameMsg >>) }
    \cup { Dir(d \o << MAILDIR_SPECIAL_DIRS[i] >>) : i \in 1..Len(MAILDIR_SPECIAL_DIRS) }

\* the optional items of an initial tree
Items ==
    << MaildirAt(<< NameA >>),
       MaildirAt(<< Container(NameA), NameB >>),
       MaildirAt(<< Container(NameA), Container(NameB), NameC >>),
       MaildirAt(<< NameAB >>),
       MaildirAt(<< Container(NameA), NameIndex >>),
       { File(<< IndexFile(NameA) >>) },
       { File(<< Container(NameA), IndexFile(NameB) >>) },
       MaildirAt(<< NameInbox >>),
       MaildirAt(<< NameHiddenInbox >>),
       MaildirAt(<< Container(NameA), NameBracket >>),
       { File(<< Container(NameA), IndexFile(NameBracket) >>) },
       { Dir(<< MAILDIR_SPECIAL_DIRS[2] >>) },
       { Dir(<< NameD >>), Dir(<< NameD, MAILDIR_SPECIAL_DIRS[1] >>) },
       MaildirAt(<< NameSuffixOnly >>) >>

\* the tree holding the items S, and every directory above them
TreeOf(S) ==
    LET given == UNION { Items[i] : i \in S }
        above == UNION { { SubSeq(e.path, 1, k) : k \in 0..(Len(e.path) - 1) } : e \in given }
        kind(p) == IF \E e \in given : e.path = p /\ e.kind = "file" THEN "file" ELSE "dir"
    IN  [p \in { e.path : e \in given } \cup above \cup {Root} |->
            [kind |-> kind(p), orig |-> p]]

Folders == { << "m" >>, << ".", "m" >> }
Separators == { DEFAULT_HIERARCHY_SEPARATOR, << ":" >> }

Init ==
    /\ \E S \in SUBSET (1..Len(Items)) : Cardinality(S) <= MaxItems /\ fs0 = TreeOf(S)
    /\ fs = fs0
    /\ args \in [ folder : Folders, dry_run : BOOLEAN, remove_index_files : BOOLEAN,
                  hierarchy_separator : Separators ]
    /\ scan_rev \in BOOLEAN
    /\ pc = "start"
    /\ pass = "none"
    /\ fs_action = [dry_run |-> TRUE, quiet |-> TRUE]
    /\ discovered = << >>
    /\ maildirs = << >>
    /\ index_files = << >>
    /\ inbox_i = 1
    /\ log = << >>
    /\ error = "none"

-----------------------------------------------------------------------------
(* kmail2maildir(args) and Kmail2Maildir.move_kmail_folders() *)

\* Kmail2Maildir(args, fa).move_kmail_folders() up to the head of the for loop
begin_pass(p, fa) ==
    LET ms == discover(fs, scan_rev, args)
    IN  /\ pass' = p
        /\ fs_action' = fa
        /\ discovered' = ms
        /\ maildirs' = ms
        /\ index_files' = << >>
        /\ inbox_i' = 1
        /\ pc' = IF ms = << >> THEN "inbox" ELSE "rename"
        /\ UNCHANGED << fs, fs0, args, scan_rev, log, error >>

\* line 188-190: the quiet dry pass that precedes a real run
kmail2maildir_check ==
    /\ pc = "start"
    /\ ~args.dry_run
    /\ begin_pass("check", [dry_run |-> TRUE, quiet |-> TRUE])

\* the pass the user asked for, begun without the quiet dry pass before it
kmail2maildir_main_unchecked ==
    /\ pc \in {"start", "checked"}
    /\ begin_pass("main", [dry_run |-> args.dry_run, quiet |-> FALSE])

\* line 192: the pass the user asked for
kmail2maildir_main ==
    /\ IF args.dry_run THEN pc = "start" ELSE pc = "checked"
    /\ begin_pass("main", [dry_run |-> args.dry_run, quiet |-> FALSE])

\* the outcome r of a gateway call, with the exception of a failed call caught
\* and the program going on with its next step
finish_swallow(r, next) ==
    /\ fs' = r.fs
    /\ log' = r.log
    /\ pc' = next
    /\ error' = IF r.ok THEN error ELSE r.err

\* the outcome r of a gateway call, and where the program goes when it returns
finish(r, next) ==
    /\ fs' = r.fs
    /\ log' = r.log
    /\ pc' = IF r.ok THEN next ELSE "failed"
    /\ error' = IF r.ok THEN error ELSE r.err

\* line 99: rename the maildir to its flattened path
move_rename ==
    /\ pc = "rename"
    /\ LET m == Head(maildirs)
           r == rename(fs_action, fs, log, m.directory, get_folder_path(args, m))
       IN  finish(r, IF args.remove_index_files THEN "remove_index" ELSE "prune")
    /\ UNCHANGED << fs0, args, scan_rev, pass, fs_action, discovered, maildirs,
                    index_files, inbox_i >>

\* line 104, 180-181: glob the index files of the maildir
move_remove_index_files ==
    /\ pc = "remove_index"
    /\ index_files' = index_file_glob(fs, scan_rev, Head(maildirs))
    /\ pc' = IF index_files' = << >> THEN "prune" ELSE "delete"
    /\ UNCHANGED << fs, fs0, args, scan_rev, pass, fs_action, discovered, maildirs,
                    inbox_i, log, error >>

\* line 182-183: delete the next index file
move_delete ==
    /\ pc = "delete"
    /\ LET r == delete(fs_action, fs, log, Head(index_files))
       IN  finish(r, IF Tail(index_files) = << >> THEN "prune" ELSE "delete")
    /\ index_files' = Tail(index_files)
    /\ UNCHANGED << fs0, args, scan_rev, pass, fs_action, discovered, maildirs, inbox_i >>

\* line 101, 107-108: remove the parent container when it is empty, and go on
\* with the next maildir; os.listdir raises when the parent is gone
move_prune ==
    /\ pc = "prune"
    /\ LET parent_maildir == get_parent_maildir(Head(maildirs))
           next == IF Tail(maildirs) = << >> THEN "inbox" ELSE "rename"
           r == IF parent_maildir = None
                THEN [ok |-> TRUE, fs |-> fs, err |-> "none", log |-> log]
                ELSE IF ~isdir(fs, parent_maildir)
                THEN [ok |-> FALSE, fs |-> fs, err |-> "FileNotFoundError", log |-> log]
                ELSE IF is_empty_dir(fs, parent_maildir)
                THEN rmdir(fs_action, fs, log, parent_maildir)
                ELSE [ok |-> TRUE, fs |-> fs, err |-> "none", log |-> log]
       IN  finish(r, next)
    /\ maildirs' = Tail(maildirs)
    /\ UNCHANGED << fs0, args, scan_rev, pass, fs_action, discovered, index_files, inbox_i >>

\* line 111-113: move cur, new and tmp of the inbox to the mailbox root
move_inbox_rename ==
    /\ pc = "inbox"
    /\ LET maildir_dir == MAILDIR_SPECIAL_DIRS[inbox_i]
           r == rename(fs_action, fs, log, kmail_inbox \o << maildir_dir >>, << maildir_dir >>)
       IN  finish(r, IF inbox_i = Len(MAILDIR_SPECIAL_DIRS) THEN "inbox_rmdir" ELSE "inbox")
    /\ inbox_i' = inbox_i + 1
    /\ UNCHANGED << fs0, args, scan_rev, pass, fs_action, discovered, maildirs, index_files >>

\* line 114: remove the inbox directory; the pass is over
move_inbox_rmdir ==
    /\ pc = "inbox_rmdir"
    /\ LET r == rmdir(fs_action, fs, log, kmail_inbox)
       IN  finish(r, IF pass = "check" THEN "checked" ELSE "done")
    /\ UNCHANGED << fs0, args, scan_rev, pass, fs_action, discovered, maildirs,
                    index_files, inbox_i >>

Next ==
    \/ kmail2maildir_check
    \/ kmail2maildir_main
    \/ move_rename
    \/ move_remove_index_files
    \/ move_delete
    \/ move_prune
    \/ move_inbox_rename
    \/ move_inbox_rmdir

Spec == Init /\ [][Next]_vars

-----------------------------------------------------------------------------
(* Vocabulary of the properties *)

\* the invocation changes the tree: it is a real run in its main pass
RealPass == pass = "main" /\ ~args.dry_run

\* the maildirs the for loop has finished with, in the running pass
Processed == SubSeq(discovered, 1, Len(discovered) - Len(maildirs))

Special == { MAILDIR_SPECIAL_DIRS[i] : i \in 1..Len(MAILDIR_SPECIAL_DIRS) }

\* the path of p, an entry below directory `old`, once `old` is at `new`
Moved(p, old, new) == new \o SubSeq(p, Len(old) + 1, Len(p))

\* the directory `at` of tree f holds exactly what `was` held in the initial tree
SameContent(f, at, was) ==
    /\ \A p \in DOMAIN fs0 : IsPrefix(was, p) =>
           /\ Moved(p, was, at) \in DOMAIN f
           /\ f[Moved(p, was, at)] = fs0[p]
    /\ \A q \in DOMAIN f : IsPrefix(at, q) => IsPrefix(was, f[q].orig)

\* the flattened path as the specification words it: the root joined with a
\* dot and the logical segments, joined by the separator
RECURSIVE Joined(_, _)
Joined(sep, segs) ==
    IF Len(segs) = 1 THEN segs[1] ELSE segs[1] \o sep \o Joined(sep, Tail(segs))

Segment(c) ==
    IF Len(c) >= 11 /\ c[1] = "." /\ SubSeq(c, Len(c) - 9, Len(c)) = KMAIL_SUBDIR_SUFFIX
    THEN SubSeq(c, 2, Len(c) - 10)
    ELSE c

Flattened(sep, directory) ==
    << << "." >> \o Joined(sep, [i \in 1..Len(directory) |-> Segment(directory[i])]) >>

HiddenInbox == << << ".", "i", "n", "b", "o", "x" >> >>

\* two distinct discovered folders with one flattened path under separator sep
Collide(sep, list) ==
    \E i, j \in 1..Len(list) :
        /\ list[i].directory # list[j].directory
        /\ Flattened(sep, list[i].directory) = Flattened(sep, list[j].directory)

\* log entry e of the pass with quietness q renames src
IsRename(e, q, src) == e.op = "rename" /\ e.quiet = q /\ e.a = src

\* F is an ancestor of G by nesting: G lies in the container of F, next to F
Ancestor(F, G) ==
    IsPrefix(dirname(F.directory) \o << << "." >> \o F.name \o KMAIL_SUBDIR_SUFFIX >>,
             dirname(G.directory))

-----------------------------------------------------------------------------
(* C1 *)

\* C1: a real (non-dry) invocation that fails leaves the tree as it was:
\* every failure is raised before any mutation has been made.
C1_FailureLeavesTreeUntouched ==
    (pc = "failed" /\ ~args.dry_run) => fs = fs0

-----------------------------------------------------------------------------
(* C2 *)

\* C2: when two distinct discovered folders have the same flattened path, the
\* validation pass of a real invocation raises: the pass never completes, the
\* main pass never starts and the tree is never changed.
C2_CollisionCaughtByValidation ==
    (~args.dry_run /\ pass # "none" /\ Collide(args.hierarchy_separator, discovered))
        => (pass = "check" /\ pc # "checked" /\ fs = fs0)

-----------------------------------------------------------------------------
(* C3 *)

\* the places where the maildir m may be: its original path, its flattened
\* path and, when that is the hidden inbox, the mailbox root
Places(m) ==
    { m.directory, Flattened(args.hierarchy_separator, m.directory) }
    \cup (IF Flattened(args.hierarchy_separator, m.directory) = HiddenInbox
          THEN {Root} ELSE {})

\* C3: in every state of every run, each of cur, new and tmp of every
\* discovered maildir, and every entry below them, is in the tree exactly
\* once, unchanged, at the original path, the flattened path or (inbox) the
\* root, and nothing else has been put into these directories.
C3_MaildirsPreserved ==
    \A k \in 1..Len(discovered) : \A s \in Special :
        LET m == discovered[k]
            was == m.directory \o << s >>
        IN  /\ \A p \in DOMAIN fs0 : IsPrefix(was, p) =>
                /\ Cardinality({ q \in DOMAIN fs : fs[q].orig = p }) = 1
                /\ \E at \in Places(m) :
                       LET q == Moved(p, m.directory, at)
                       IN  q \in DOMAIN fs /\ fs[q] = fs0[p]
            /\ \A q \in DOMAIN fs :
                   (\E d \in DOMAIN fs : fs[d].orig = was /\ IsPrefix(d, q))
                       => IsPrefix(was, fs[q].orig)

\* a real run has moved a nested maildir and deleted an index file
C3_Witness ==
    /\ RealPass
    /\ \E k \in 1..Len(discovered) :
           /\ Len(discovered[k].directory) > 1
           /\ discovered[k].directory \notin DOMAIN fs
    /\ \E e \in { log[i] : i \in 1..Len(log) } : e.op = "delete" /\ ~e.dry_run

-----------------------------------------------------------------------------
(* C4 *)

\* C4: the tree differs from the initial tree only in the main pass of an
\* invocation without --dry-run: a --dry-run invocation and the quiet
\* validation pass leave it as it was, whether they complete or raise.
C4_DryRunLeavesTree ==
    (args.dry_run \/ pass # "main") => fs = fs0

\* a --dry-run invocation has completed and has described operations
C4_Witness ==
    /\ args.dry_run
    /\ pc = "done"
    /\ \E i \in 1..Len(log) : log[i].op = "delete"
    /\ \E i \in 1..Len(log) : log[i].op = "rmdir"
    /\ Len(discovered) >= 1

-----------------------------------------------------------------------------
(* C5 *)

\* C5: in every pass, when the folder F is an ancestor of the folder G, the
\* rename of F is preceded by the rename of G.
C5_DescendantsFirst ==
    \A x, y \in 1..Len(discovered) :
        Ancestor(discovered[x], discovered[y]) =>
            \A i \in 1..Len(log) :
                IsRename(log[i], log[i].quiet, discovered[x].directory) =>
                    \E j \in 1..(i - 1) :
                        IsRename(log[j], log[i].quiet, discovered[y].directory)

\* a real pass has renamed a folder two levels below an ancestor, then the ancestor
C5_Witness ==
    /\ RealPass
    /\ \E x, y \in 1..Len(discovered) :
           /\ Ancestor(discovered[x], discovered[y])
           /\ Len(discovered[y].directory) = Len(discovered[x].directory) + 2
           /\ discovered[x].directory \notin DOMAIN fs
           /\ discovered[y].directory \notin DOMAIN fs

-----------------------------------------------------------------------------
(* C6 *)

\* C6 as stated: any two distinct discovered folders have distinct
\* flattened paths.
C6_FlattenedPathsDistinct ==
    \A i, j \in 1..Len(discovered) :
        discovered[i].directory # discovered[j].directory =>
            get_folder_path(args, discovered[i]) # get_folder_path(args, discovered[j])

\* the one-character separator sep occurs in no logical segment of the list
SeparatorUnused(sep, list) ==
    /\ Len(sep) = 1
    /\ \A k \in 1..Len(list) : \A i \in 1..Len(list[k].path_list) :
           \A c \in 1..Len(list[k].path_list[i]) : list[k].path_list[i][c] # sep[1]

\* C6 amended: when the separator is one character that occurs in no logical
\* segment of a discovered folder, any two distinct discovered folders have
\* distinct flattened paths.
C6_DistinctWhenSeparatorUnused ==
    SeparatorUnused(args.hierarchy_separator, discovered) => C6_FlattenedPathsDistinct

\* folders that collide under the default separator were discovered with a
\* separator that none of their segments holds
C6_Witness ==
    /\ SeparatorUnused(args.hierarchy_separator, discovered)
    /\ Collide(DEFAULT_HIERARCHY_SEPARATOR, discovered)

-----------------------------------------------------------------------------
(* C7 *)

\* C7: when a real invocation has completed, no discovered folder is at its
\* original path, and each is the directory of the root named by its
\* flattened path, with the content it had; the folder flattened to .inbox
\* has its cur, new and tmp in the root instead.
C7_FoldersFlattened ==
    (pc = "done" /\ ~args.dry_run) =>
        \A k \in 1..Len(discovered) :
            LET d == discovered[k].directory
                flat == Flattened(args.hierarchy_separator, d)
            IN  /\ d \notin DOMAIN fs
                /\ Len(flat) = 1
                /\ IF flat = HiddenInbox
                   THEN \A s \in Special : SameContent(fs, << s >>, d \o << s >>)
                   ELSE isdir(fs, flat) /\ SameContent(fs, flat, d)

\* a real invocation has completed on a tree with a nested folder
C7_Witness ==
    /\ pc = "done"
    /\ ~args.dry_run
    /\ \E k \in 1..Len(discovered) : Len(discovered[k].directory) > 1
    /\ Len(discovered) >= 2

-----------------------------------------------------------------------------
(* C8 *)

\* the inbox of the initial tree: the hidden inbox, or the root folder inbox
InboxOrigin == IF HiddenInbox \in DOMAIN fs0 THEN HiddenInbox ELSE << NameInbox >>

\* C8: in every pass the inbox relocation is reached, and its operations are
\* described, only when every discovered folder has been renamed in that
\* pass; after a completed real pass cur, new and tmp of the root hold the
\* content of the inbox and root/.inbox is gone.
C8_InboxLast ==
    /\ (pc \in {"inbox", "inbox_rmdir"}
        \/ \E i \in 1..Len(log) :
               /\ log[i].quiet = fs_action.quiet
               /\ log[i].a \in { HiddenInbox \o << s >> : s \in Special } \cup { HiddenInbox })
       => /\ maildirs = << >>
          /\ \A k \in 1..Len(discovered) : \E j \in 1..Len(log) :
                 /\ IsRename(log[j], fs_action.quiet, discovered[k].directory)
                 /\ \A i \in 1..j : log[i].a \notin { HiddenInbox \o << s >> : s \in Special }
                                    \/ log[i].quiet # fs_action.quiet
    /\ (pc = "done" /\ ~args.dry_run)
       => /\ HiddenInbox \notin DOMAIN fs
          /\ \A s \in Special :
                 /\ isdir(fs, << s >>)
                 /\ SameContent(fs, << s >>, InboxOrigin \o << s >>)

\* a real invocation has completed whose inbox was discovered as the root
\* folder inbox and renamed by the loop, next to another folder
C8_Witness ==
    /\ pc = "done"
    /\ ~args.dry_run
    /\ Len(discovered) >= 2
    /\ \E k \in 1..Len(discovered) : discovered[k].directory = << NameInbox >>

-----------------------------------------------------------------------------
(* C9 *)

\* the destination of the rename the program is about to call
RenameDst ==
    IF pc = "rename" THEN Flattened(args.hierarchy_separator, Head(maildirs).directory)
    ELSE << MAILDIR_SPECIAL_DIRS[inbox_i] >>

\* C9: a rename whose destination exists raises, in dry and in real mode, and
\* changes nothing; a rename that changes the tree had no destination before
\* it and leaves every other entry in place.
C9_RenameStep ==
    (pc \in {"rename", "inbox"}) =>
        /\ RenameDst \in DOMAIN fs =>
               pc' = "failed" /\ error' = "Exception" /\ fs' = fs /\ log' = log
        /\ fs' # fs =>
               /\ RenameDst \notin DOMAIN fs
               /\ \A q \in DOMAIN fs :
                      \/ q \in DOMAIN fs' /\ fs'[q] = fs[q]
                      \/ \E r \in DOMAIN fs' : IsPrefix(RenameDst, r) /\ fs'[r] = fs[q]

C9_RenameNeverReplaces == [][C9_RenameStep]_vars

\* a rename of the real pass has raised because its destination exists,
\* after the tree was changed
C9_Witness ==
    /\ pc = "failed"
    /\ error = "Exception"
    /\ RealPass
    /\ fs # fs0

-----------------------------------------------------------------------------
(* C10 *)

\* the maildir the for loop has just finished with
JustProcessed ==
    /\ pc \in {"rename", "inbox"}
    /\ inbox_i = 1
    /\ Len(Processed) > 0

\* C10: in a real pass with --remove-index-files, when a folder has been
\* processed no file named .<name>.index* is left in its original parent
\* directory, the parent container of a folder below the root is not left
\* empty, and the mailbox root is still there.
C10_IndexFilesPurged ==
    (RealPass /\ args.remove_index_files /\ JustProcessed) =>
        LET m == Processed[Len(Processed)]
            parent == dirname(m.directory)
        IN  /\ \A p \in listdir(fs, parent) :
                   ~(fs[p].kind = "file"
                     /\ startswith(basename(p), << "." >> \o m.name \o INDEX_SUFFIX))
            /\ (Len(m.directory) > 1 /\ parent \in DOMAIN fs) => listdir(fs, parent) # {}
            /\ Root \in DOMAIN fs

-----------------------------------------------------------------------------
(* C11 *)

\* C11: in a run without --remove-index-files no rmdir of a parent container
\* is handed to the gateway: every rmdir of such a run is that of root/.inbox.
C11_PruneOnlyWithFlag ==
    ~args.remove_index_files =>
        \A i \in 1..Len(log) : log[i].op = "rmdir" => log[i].a = HiddenInbox

-----------------------------------------------------------------------------
(* C12 *)

\* the operations of the log entries made with dry_run = d, in order
Operations(d) ==
    LET part == SelectSeq(log, LAMBDA e : e.dry_run = d)
    IN  [i \in 1..Len(part) |-> [op |-> part[i].op, a |-> part[i].a, b |-> part[i].b]]

\* C12: the operations a dry pass describes are the operations the real pass
\* performs on the same tree with the same options: when the real pass of an
\* invocation has completed, its operations are those of the dry pass that
\* ran before it (the quiet flag of that pass changes the printing only).
C12_DryRunDescribesRealRun ==
    (RealPass /\ pc = "done") => Operations(TRUE) = Operations(FALSE)

(* C13 *)
\* the log entries of the quiet pass
QuietLog == SelectSeq(log, LAMBDA e : e.quiet)

\* a quiet dry pass went through all its steps: it described the rename of
\* every discovered folder, then the relocation of cur, new and tmp of the
\* inbox, and ended with the removal of the inbox directory
CompleteQuietPass ==
    LET n == Len(QuietLog)
        k == Len(MAILDIR_SPECIAL_DIRS)
    IN  /\ n >= Len(discovered) + k + 1
        /\ \A i \in 1..n : QuietLog[i].dry_run
        /\ \A i \in 1..Len(discovered) :
               \E j \in 1..(n - k - 1) : IsRename(QuietLog[j], TRUE, discovered[i].directory)
        /\ \A i \in 1..k :
               IsRename(QuietLog[n - k - 1 + i], TRUE, HiddenInbox \o << MAILDIR_SPECIAL_DIRS[i] >>)
        /\ QuietLog[n].op = "rmdir" /\ QuietLog[n].a = HiddenInbox

\* C13: in a non-dry invocation the tree is changed, and the real pass runs,
\* only after a complete quiet dry pass has ended without error, and a quiet
\* pass that raised is never followed by the real pass; in an invocation with
\* --dry-run one pass runs, and it is a non-quiet dry pass.
C13_CheckPassFirst ==
    /\ ~args.dry_run =>
           /\ (fs # fs0 \/ pass = "main" \/ \E i \in 1..Len(log) : ~log[i].quiet)
                  => CompleteQuietPass
           /\ pass = "check" => (error = "none" /\ pc # "failed") \/ (error # "none" /\ pc = "failed")
           /\ pass = "check" => fs_action = [dry_run |-> TRUE, quiet |-> TRUE]
           /\ pass = "main" => fs_action = [dry_run |-> FALSE, quiet |-> FALSE]
    /\ args.dry_run =>
           /\ pass \in {"none", "main"}
           /\ pass = "main" => fs_action = [dry_run |-> TRUE, quiet |-> FALSE]
           /\ \A i \in 1..Len(log) : log[i].dry_run /\ ~log[i].quiet
           /\ \A i, j \in 1..Len(log) :
                  (log[i].op = "rename" /\ log[i] = log[j]) => i = j
           /\ pc = "done" => log # << >> /\ log[Len(log)].a = HiddenInbox

\* a real pass has changed the tree of a folder after its check pass
C13_Witness ==
    /\ RealPass /\ fs # fs0 /\ Len(discovered) >= 1
    /\ CompleteQuietPass
    /\ \E i \in 1..Len(log) : ~log[i].quiet /\ ~log[i].dry_run

(* C14 *)
\* component c is the name of a KMail container: '.<name>.directory'
ContainerName(c) ==
    Len(c) >= 11 /\ c[1] = "." /\ SubSeq(c, Len(c) - 9, Len(c)) = KMAIL_SUBDIR_SUFFIX

\* directory d of tree f is the root or a container reached from the root
\* through nested containers
ReachableContainer(f, d) ==
    \A i \in 1..Len(d) :
        /\ ContainerName(d[i])
        /\ SubSeq(d, 1, i) \in DOMAIN f
        /\ f[SubSeq(d, 1, i)].kind = "dir"

\* the folders discovery has to return on tree f
ExpectedMaildirs(f) ==
    { c \in DOMAIN f :
        /\ c # Root
        /\ ReachableContainer(f, dirname(c))
        /\ f[c].kind = "dir"
        /\ basename(c)[1] # "."
        /\ \A x \in Special : (c \o << x >>) \in DOMAIN f /\ f[c \o << x >>].kind = "dir" }

\* C14: discovery returns exactly the non-hidden maildir children of the root
\* and of the containers nested below it, whatever the text of the root path.
C14_DiscoveryExact ==
    pass # "none" =>
        { discovered[i].directory : i \in 1..Len(discovered) } = ExpectedMaildirs(fs0)

(* C15 *)
\* C15: a pass that reached the inbox relocation with no root/.inbox fails: a
\* pass is past the first inbox rename, or has completed without changing the
\* tree, only when root/.inbox is there (the relocation itself removes .inbox
\* with its last step only).
C15_MissingInboxFails ==
    ((pc = "inbox" /\ inbox_i > 1) \/ pc = "inbox_rmdir" \/ pc = "checked"
        \/ (pc = "done" /\ args.dry_run))
        => HiddenInbox \in DOMAIN fs

(* C16 *)
\* C16: once a gateway operation has failed nothing more is attempted, in this
\* pass or a later one, and nothing is undone: every step is taken with no
\* failure behind it, and the step that fails leaves the tree as the earlier
\* steps made it and ends the invocation.
C16_FailureStopsEverything ==
    [][ /\ error = "none" /\ pc # "failed"
        /\ (error' # "none") = (pc' = "failed")
        /\ error' # "none" => fs' = fs /\ Len(log') <= Len(log) + 1 ]_vars

\* a real pass has failed after it changed the tree
C16_Witness ==
    /\ pc = "failed" /\ error # "none"
    /\ RealPass /\ fs # fs0
    /\ \E i \in 1..Len(log) : ~log[i].dry_run /\ log[i].op = "rename"

(* C17 *)
\* component c begins with '.' / ends with '.directory'
BeginsWithDot(c) == Len(c) >= 1 /\ c[1] = "."
EndsWithDirectory(c) ==
    Len(c) >= 10 /\ SubSeq(c, Len(c) - 9, Len(c)) = << ".", "d", "i", "r", "e", "c", "t", "o", "r", "y" >>

\* segment seg is what the rule makes of component c
SegmentOf(c, seg) ==
    IF BeginsWithDot(c) /\ EndsWithDirectory(c)
    THEN << "." >> \o seg \o << ".", "d", "i", "r", "e", "c", "t", "o", "r", "y" >> = c
    ELSE seg = c

\* C17: the logical segments of every folder are its path components, one for
\* one: a component with both the leading '.' and the trailing '.directory'
\* loses both, any other component is kept as it is; the list is never empty.
C17_LogicalSegments ==
    \A k \in 1..Len(discovered) :
        LET m == discovered[k]
        IN  /\ Len(m.path_list) >= 1
            /\ Len(m.path_list) = Len(m.directory)
            /\ \A i \in 1..Len(m.directory) : SegmentOf(m.directory[i], m.path_list[i])

\* the discovered folders hold a component with both marks, one with the
\* suffix only and one with neither
C17_Witness ==
    \E k, l \in 1..Len(discovered) :
        /\ \E i \in 1..Len(discovered[k].directory) :
               LET c == discovered[k].directory[i]
               IN  BeginsWithDot(c) /\ EndsWithDirectory(c) /\ discovered[k].path_list[i] # c
        /\ \E i \in 1..Len(discovered[k].directory) :
               LET c == discovered[k].directory[i]
               IN  ~BeginsWithDot(c) /\ ~EndsWithDirectory(c)
        /\ \E i \in 1..Len(discovered[l].directory) :
               LET c == discovered[l].directory[i]
               IN  ~BeginsWithDot(c) /\ EndsWithDirectory(c) /\ discovered[l].path_list[i] = c

(* C18 *)
\* C18: every path handed to delete is a regular file of the initial tree;
\* the index-file purge never targets a directory.
C18_DeleteTargetsInitialFiles ==
    \A i \in 1..Len(log) :
        log[i].op = "delete" =>
            /\ log[i].a \in DOMAIN fs0
            /\ fs0[log[i].a].kind = "file"

(* C19 *)
\* entry c of tree f is a maildir with a visible name
MaildirEntry(f, c) ==
    /\ f[c].kind = "dir"
    /\ basename(c)[1] # "."
    /\ \A x \in Special : (c \o << x >>) \in DOMAIN f /\ f[c \o << x >>].kind = "dir"

\* entry c of tree f is an index file '.<name>.index*' of a maildir beside it
IndexFileEntry(f, c) ==
    /\ f[c].kind = "file"
    /\ \E m \in DOMAIN f :
           /\ m # Root /\ dirname(m) = dirname(c) /\ MaildirEntry(f, m)
           /\ IsPrefix(<< "." >> \o basename(m) \o << ".", "i", "n", "d", "e", "x" >>, basename(c))

\* the containers of tree f hold only maildirs, nested containers and index
\* files of those maildirs
ContainersClean(f) ==
    \A c \in DOMAIN f :
        (c # Root /\ dirname(c) # Root /\ ReachableContainer(f, dirname(c))) =>
            \/ MaildirEntry(f, c)
            \/ f[c].kind = "dir" /\ ContainerName(basename(c))
            \/ IndexFileEntry(f, c)

\* C19: after a completed real pass with --remove-index-files on a tree with
\* clean containers, no container that held a discovered folder, directly or
\* through nested containers, is left under the root.
C19_ContainersRemoved ==
    (pc = "done" /\ RealPass /\ args.remove_index_files /\ ContainersClean(fs0)) =>
        \A k \in 1..Len(discovered) :
            \A i \in 1..(Len(discovered[k].directory) - 1) :
                SubSeq(discovered[k].directory, 1, i) \notin DOMAIN fs

====
